---- MODULE Spec2Model ----
(***************************************************************************)
(* Model of dgllife/data/jtvae.py: JTVAEDataset.__getitem__ (lazy,         *)
(* optionally cached construction of junction trees and graphs) and        *)
(* JTVAECollator.__call__ (batch node IDs, candidate batch indices, the    *)
(* tree-to-candidate message edges and the stereo candidate indices).      *)
(*                                                                         *)
(* MolTree, mol_to_bigraph and dgl.batch are external.  A MolTree is a     *)
(* record drawn from a small set of trees (MolTree below); mol_to_bigraph  *)
(* of a molecule is a graph with one node per atom; dgl.batch is the       *)
(* concatenation of its graphs, node IDs shifted by the node counts of the *)
(* graphs before.  Python's 0-based values (idx, tot, i, atom indices,     *)
(* batch positions) are kept 0-based; nodes_dict[k] of the code is         *)
(* position k + 1 of the sequence nodes here, so an atom-map number m      *)
(* names position m.                                                       *)
(***************************************************************************)
EXTENDS Integers, Sequences, FiniteSets, TLC

\* Number of lines of the data file.
NData == 2
\* Number of __getitem__ calls in one run.
MaxCalls == 3
\* Number of datapoints in one batch.
MaxBatch == 2
\* Cap on the length of a tree's stereo_cands list.
MaxStereoLen == 3

VARIABLES
    cache,               \* self.cache
    training,            \* self.training (dataset and collator agree)
    data,                \* self.data: the SMILES of each line
    trees,               \* self.trees: object id, 0 for None
    mol_graphs,          \* self.mol_graphs: object id, 0 for None
    cand_graphs,         \* self.cand_graphs: [set, val], set = FALSE for None
    stereo_cand_graphs,  \* self.stereo_cand_graphs: likewise
    heap,                \* the MolTree objects constructed so far
    calls,               \* number of __getitem__ calls made so far
    pc,                  \* "idle", or "stereo_loop" inside __getitem__'s loop
    cur,                 \* locals of the __getitem__ call inside its loop
    ret,                 \* outcome of the __getitem__ call just made
    batch,               \* datapoints returned since the last collation
    out                  \* outcome of the JTVAECollator.__call__ just made

vars == <<cache, training, data, trees, mol_graphs, cand_graphs,
          stereo_cand_graphs, heap, calls, pc, cur, ret, batch, out>>

Range(s) == {s[k] : k \in 1..Len(s)}

\* Python None for a list-valued slot, and a list value.
None == [set |-> FALSE, val |-> <<>>]
Some(v) == [set |-> TRUE, val |-> v]

(***************************************************************************)
(* The external chemistry: SMILES strings and the trees MolTree builds.    *)
(***************************************************************************)
Smiles == {"bad", "A", "B", "D", "E"}

Bond(b, e, mb, me) == [b |-> b, e |-> e, mb |-> mb, me |-> me]
Mol(n, bonds) == [natoms |-> n, bonds |-> bonds]
Node(leaf, label, label_mol, cands, cand_mols) ==
    [is_leaf |-> leaf, label |-> label, label_mol |-> label_mol,
     cands |-> cands, cand_mols |-> cand_mols]

M0 == Mol(1, <<>>)
M1 == Mol(3, <<Bond(0, 1, 1, 2), Bond(2, 1, 3, 2), Bond(1, 2, 2, 2)>>)
M2 == Mol(2, <<Bond(0, 1, 0, 2), Bond(1, 0, 2, 1), Bond(0, 1, 1, 3)>>)
M3 == Mol(2, <<Bond(0, 1, 1, 2)>>)
M4 == Mol(3, <<Bond(0, 1, 2, 1), Bond(1, 2, 1, 1)>>)

\* MolTree(smiles) after recover() and assemble(); undefined for "bad".
MolTree(s) ==
    CASE s = "A" ->
           [nodes |-> <<Node(TRUE, 1, M0, <<>>, <<>>),
                        Node(TRUE, 2, M0, <<>>, <<>>)>>,
            edges |-> {<<1, 2>>, <<2, 1>>},
            stereo_cands |-> <<10>>, smiles3D |-> 10]
      [] s = "B" ->
           [nodes |-> <<Node(TRUE, 1, M0, <<>>, <<>>),
                        Node(FALSE, 21, M1, <<21, 22>>, <<M1, M2>>),
                        Node(TRUE, 3, M0, <<>>, <<>>)>>,
            edges |-> {<<1, 2>>, <<2, 1>>, <<2, 3>>},
            stereo_cands |-> <<11>>, smiles3D |-> 11]
      [] s = "D" ->
           [nodes |-> <<Node(FALSE, 42, M4, <<41>>, <<M3>>),
                        Node(TRUE, 2, M0, <<>>, <<>>)>>,
            edges |-> {<<1, 2>>},
            stereo_cands |-> <<14>>, smiles3D |-> 14]
      [] s = "E" ->
           [nodes |-> <<Node(FALSE, 31, M0, <<31>>, <<M0>>)>>,
            edges |-> {},
            stereo_cands |-> <<>>, smiles3D |-> 15]

\* MolTree(smiles) and get_mol(smiles) succeed.
Parses(s) == s # "bad"

\* An element of stereo_cands: a stereo SMILES, or a graph appended to it.
StereoSmiles(c) == [kind |-> "smiles", id |-> c]
StereoGraph == [kind |-> "graph", id |-> 0]

\* mol_to_bigraph(mol, ...): a graph with one node per atom.
mol_to_bigraph(mol) == mol.natoms

(***************************************************************************)
(* JTVAEDataset.__getitem__                                                *)
(***************************************************************************)

\* Lines 173-176: a node whose label is no candidate gets it appended.
AddLabel(node) ==
    IF node.label \notin Range(node.cands)
    THEN [node EXCEPT !.cands = Append(node.cands, node.label),
                      !.cand_mols = Append(node.cand_mols, node.label_mol)]
    ELSE node

\* mol_tree.nodes_dict of the tree built from smiles s, after lines 173-176.
nodes_dict(s) == [k \in 1..Len(MolTree(s).nodes) |-> AddLabel(MolTree(s).nodes[k])]

\* A newly constructed MolTree object: no node has an 'idx' yet (-1).
NewTree(s) ==
    [smiles |-> s,
     idx |-> [k \in 1..Len(MolTree(s).nodes) |-> -1],
     stereo_cands |-> [k \in 1..Len(MolTree(s).stereo_cands) |->
                          StereoSmiles(MolTree(s).stereo_cands[k])]]

\* Line 164 (and 199): the tree of idx is stored.
CacheHitNever(tr, idx) == FALSE
CacheHit(tr, idx) == cache /\ tr[idx] # 0

\* Lines 192-194: the slot is written once construction and parsing are done.
StoreEarly(slots, idx, o, ok) == IF cache THEN [slots EXCEPT ![idx] = o] ELSE slots
Store(slots, idx, o, ok) == IF cache /\ ok THEN [slots EXCEPT ![idx] = o] ELSE slots

\* Lines 206-207: leaves and single-candidate nodes have no candidate graphs.
Skipped(node) == node.is_leaf \/ Len(node.cands) = 1

RECURSIVE GraphsOf(_)
\* Lines 208-215 for one node: a graph per candidate molecule.
GraphsOf(mols) ==
    IF mols = <<>> THEN <<>>
    ELSE <<mol_to_bigraph(Head(mols))>> \o GraphsOf(Tail(mols))

RECURSIVE CandGraphs(_)
\* Lines 203-215: the candidate graphs of a tree, node by node.
CandGraphs(nodes) ==
    IF nodes = <<>> THEN <<>>
    ELSE (IF Skipped(Head(nodes)) THEN <<>> ELSE GraphsOf(Head(nodes).cand_mols))
         \o CandGraphs(Tail(nodes))

\* Lines 231-233.
StoreList(slots, idx, v) == IF cache THEN [slots EXCEPT ![idx] = Some(v)] ELSE slots

NoCur == [idx |-> 0, tree |-> 0, cand |-> <<>>, pos |-> 0]
NoRet == [kind |-> "none", why |-> "", idx |-> 0, tree |-> 0, mol_graph |-> 0,
          cand |-> None, stereo |-> None, built |-> FALSE]
Returned(idx, o, c, s, built) ==
    [kind |-> "returned", why |-> "", idx |-> idx, tree |-> o, mol_graph |-> o,
     cand |-> c, stereo |-> s, built |-> built]
Raised(idx, why) == [NoRet EXCEPT !.kind = "raised", !.why = why, !.idx = idx]
Item(r) == [tree |-> r.tree, mol_graph |-> r.mol_graph, cand |-> r.cand,
            stereo |-> r.stereo]

NoOut ==
    [kind |-> "none", ncomp |-> 0, items |-> <<>>, batch_trees |-> <<>>,
     batch_tree_graphs |-> [n |-> 0, edges |-> {}], batch_mol_graphs |-> <<>>,
     cand_batch_idx |-> [shape |-> <<0>>, rows |-> <<>>],
     batch_cand_graphs |-> <<>>,
     tree_mess_source_edges |-> [shape |-> <<0, 2>>, rows |-> <<>>],
     tree_mess_target_edges |-> [shape |-> <<0, 2>>, rows |-> <<>>],
     stereo_cand_batch_idx |-> [shape |-> <<0>>, rows |-> <<>>],
     stereo_cand_labels |-> <<>>,
     batch_stereo_cand_graphs |-> <<>>, bonds |-> <<>>, restamped |-> FALSE]

Init ==
    /\ cache \in BOOLEAN
    /\ training \in BOOLEAN
    /\ data \in [1..NData -> Smiles]
    /\ trees = [k \in 1..NData |-> 0]
    /\ mol_graphs = [k \in 1..NData |-> 0]
    /\ cand_graphs = [k \in 1..NData |-> None]
    /\ stereo_cand_graphs = [k \in 1..NData |-> None]
    /\ heap = <<>>
    /\ calls = 0
    /\ pc = "idle"
    /\ cur = NoCur
    /\ ret = NoRet
    /\ batch = <<>>
    /\ out = NoOut

\* One __getitem__(idx) call, up to its return, its exception, or its entry
\* into the loop of lines 223-229.
GetItem(idx) ==
    /\ pc = "idle"
    /\ Len(batch) < MaxBatch
    /\ calls < MaxCalls
    /\ calls' = calls + 1
    /\ LET hit == CacheHit(trees, idx)
           s == data[idx]
           ok == hit \/ Parses(s)
           built == ~hit /\ ok
           o == IF hit THEN trees[idx] ELSE Len(heap) + 1
           heap1 == IF built THEN Append(heap, NewTree(s)) ELSE heap
           trees1 == IF hit THEN trees ELSE Store(trees, idx, o, ok)
           graphs1 == IF hit THEN mol_graphs ELSE Store(mol_graphs, idx, o, ok)
       IN  /\ trees' = trees1
           /\ mol_graphs' = graphs1
           /\ IF ~ok
              THEN \* lines 169-190 raise
                   /\ ret' = Raised(idx, "parse")
                   /\ UNCHANGED <<heap, pc, cur, batch, cand_graphs, stereo_cand_graphs>>
              ELSE IF ~training
              THEN \* line 197
                   /\ ret' = Returned(idx, o, None, None, built)
                   /\ batch' = Append(batch, Item(ret'))
                   /\ heap' = heap1
                   /\ UNCHANGED <<pc, cur, cand_graphs, stereo_cand_graphs>>
              ELSE IF CacheHit(trees1, idx)
              THEN \* lines 199-201
                   /\ ret' = Returned(idx, o, cand_graphs[idx],
                                      stereo_cand_graphs[idx], built)
                   /\ batch' = Append(batch, Item(ret'))
                   /\ heap' = heap1
                   /\ UNCHANGED <<pc, cur, cand_graphs, stereo_cand_graphs>>
              ELSE LET cg == CandGraphs(nodes_dict(s))
                       sc == heap1[o].stereo_cands
                       s3D == StereoSmiles(MolTree(s).smiles3D)
                   IN  IF Len(sc) # 1
                       THEN \* lines 219-223: enter the loop
                            /\ heap' = [heap1 EXCEPT ![o].stereo_cands =
                                          IF s3D \notin Range(sc)
                                          THEN Append(sc, s3D) ELSE sc]
                            /\ pc' = "stereo_loop"
                            /\ cur' = [idx |-> idx, tree |-> o, cand |-> cg, pos |-> 1]
                            /\ UNCHANGED <<ret, batch, cand_graphs, stereo_cand_graphs>>
                       ELSE \* lines 231-235 with stereo_cand_graphs = []
                            /\ heap' = heap1
                            /\ cand_graphs' = StoreList(cand_graphs, idx, cg)
                            /\ stereo_cand_graphs' =
                                   StoreList(stereo_cand_graphs, idx, <<>>)
                            /\ ret' = Returned(idx, o, Some(cg), Some(<<>>), built)
                            /\ batch' = Append(batch, Item(ret'))
                            /\ UNCHANGED <<pc, cur>>
    /\ out' = NoOut
    /\ UNCHANGED <<cache, training, data>>

\* One iteration of the loop of lines 223-229 over stereo_cands, or its end.
\* Line 229 appends the graph to stereo_cands, the list being iterated.
\* mol_to_bigraph is external: given an element that is itself such a graph
\* it either builds a graph or raises.
StereoLoop ==
    /\ pc = "stereo_loop"
    /\ LET o == cur.tree
           sc == heap[o].stereo_cands
       IN  IF cur.pos <= Len(sc)
           THEN \/ /\ Len(sc) < MaxStereoLen
                   /\ heap' = [heap EXCEPT ![o].stereo_cands = Append(sc, StereoGraph)]
                   /\ cur' = [cur EXCEPT !.pos = cur.pos + 1]
                   /\ UNCHANGED <<pc, ret, batch, cand_graphs, stereo_cand_graphs>>
                \/ /\ sc[cur.pos].kind = "graph"
                   /\ ret' = Raised(cur.idx, "graph")
                   /\ pc' = "idle"
                   /\ cur' = NoCur
                   /\ UNCHANGED <<heap, batch, cand_graphs, stereo_cand_graphs>>
           ELSE \* lines 231-235
                /\ cand_graphs' = StoreList(cand_graphs, cur.idx, cur.cand)
                /\ stereo_cand_graphs' = StoreList(stereo_cand_graphs, cur.idx, <<>>)
                /\ ret' = Returned(cur.idx, o, Some(cur.cand), Some(<<>>), TRUE)
                /\ batch' = Append(batch, Item(ret'))
                /\ pc' = "idle"
                /\ cur' = NoCur
                /\ UNCHANGED heap
    /\ UNCHANGED <<cache, training, data, trees, mol_graphs, calls, out>>

(***************************************************************************)
(* JTVAECollator.__call__                                                  *)
(***************************************************************************)

\* batch_trees of line 293: the tree of each datapoint.
TreesOf(items) == [k \in 1..Len(items) |-> items[k].tree]

\* Number of nodes of tree object o.
NumNodes(h, o) == Len(h[o].idx)

\* Lines 305-309: tot runs on from one tree of the batch to the next.
TotPerTree(tot, n) == 0
TotAfter(tot, n) == tot + n

RECURSIVE SetBatchNodeID(_, _, _)
\* Lines 305-309: the nodes of the batch's trees are numbered tot, tot+1, ...
SetBatchNodeID(h, ts, tot) ==
    IF ts = <<>> THEN h
    ELSE LET o == Head(ts)
             n == NumNodes(h, o)
         IN  SetBatchNodeID([h EXCEPT ![o].idx = [j \in 1..n |-> tot + j - 1]],
                            Tail(ts), TotAfter(tot, n))

RECURSIVE BatchTreeGraphs(_, _, _)
\* Line 298: dgl.batch of the trees' graphs; a tree's node k becomes node
\* off + k of the batched graph, off the node count of the graphs before it.
BatchTreeGraphs(h, ts, off) ==
    IF ts = <<>> THEN [n |-> off, edges |-> {}]
    ELSE LET o == Head(ts)
             rest == BatchTreeGraphs(h, Tail(ts), off + NumNodes(h, o))
         IN  [n |-> rest.n,
              edges |-> {<<off + e[1] - 1, off + e[2] - 1>> :
                            e \in MolTree(h[o].smiles).edges} \cup rest.edges]

\* batched_graph.has_edges_between(u, v)
has_edges_between(g, u, v) == <<u, v>> \in g.edges

\* The locals of the loop of lines 311-341.  p (position of the tree in the
\* batch), g (number of candidate molecules visited) and bonds (the bond each
\* appended pair came from) are history, not locals of the code.
NewAcc ==
    [i |-> 0, n_nodes |-> 0, cand_batch_idx |-> <<>>,
     tree_mess_source_edges |-> <<>>, tree_mess_target_edges |-> <<>>,
     p |-> 0, g |-> 0, bonds |-> <<>>]

Origin(acc, bond, dir) == [p |-> acc.p, g |-> acc.g, bond |-> bond, dir |-> dir]

\* Lines 322-337 for the k-th bond of mol: enumerate assigns k to i.
BondStepNoSwap(acc, h, o, btg, bond, k) ==
    LET x_nid == bond.mb
        y_nid == bond.me
        x_bid == IF x_nid > 0 THEN h[o].idx[x_nid] ELSE -1
        y_bid == IF y_nid > 0 THEN h[o].idx[y_nid] ELSE -1
        acc1 == [acc EXCEPT !.i = k]
    IN  IF x_bid >= 0 /\ y_bid >= 0 /\ x_bid # y_bid
        THEN IF has_edges_between(btg, x_bid, y_bid)
             THEN [acc1 EXCEPT
                     !.tree_mess_source_edges = Append(@, <<x_bid, y_bid>>),
                     !.tree_mess_target_edges =
                         Append(@, <<bond.b + acc.n_nodes, bond.e + acc.n_nodes>>),
                     !.bonds = Append(@, Origin(acc, bond, "fwd"))]
             ELSE IF has_edges_between(btg, y_bid, x_bid)
             THEN [acc1 EXCEPT
                     !.tree_mess_source_edges = Append(@, <<x_bid, y_bid>>),
                     !.tree_mess_target_edges =
                         Append(@, <<bond.b + acc.n_nodes, bond.e + acc.n_nodes>>),
                     !.bonds = Append(@, Origin(acc, bond, "rev"))]
             ELSE acc1
        ELSE acc1
BondStep(acc, h, o, btg, bond, k) ==
    LET x_nid == bond.mb
        y_nid == bond.me
        x_bid == IF x_nid > 0 THEN h[o].idx[x_nid] ELSE -1
        y_bid == IF y_nid > 0 THEN h[o].idx[y_nid] ELSE -1
        acc1 == [acc EXCEPT !.i = k]
    IN  IF x_bid >= 0 /\ y_bid >= 0 /\ x_bid # y_bid
        THEN IF has_edges_between(btg, x_bid, y_bid)
             THEN [acc1 EXCEPT
                     !.tree_mess_source_edges = Append(@, <<x_bid, y_bid>>),
                     !.tree_mess_target_edges =
                         Append(@, <<bond.b + acc.n_nodes, bond.e + acc.n_nodes>>),
                     !.bonds = Append(@, Origin(acc, bond, "fwd"))]
             ELSE IF has_edges_between(btg, y_bid, x_bid)
             THEN [acc1 EXCEPT
                     !.tree_mess_source_edges = Append(@, <<y_bid, x_bid>>),
                     !.tree_mess_target_edges =
                         Append(@, <<bond.e + acc.n_nodes, bond.b + acc.n_nodes>>),
                     !.bonds = Append(@, Origin(acc, bond, "rev"))]
             ELSE acc1
        ELSE acc1

RECURSIVE BondsLoop(_, _, _, _, _, _)
\* Line 322: for i, bond in enumerate(mol.GetBonds()), from the k-th bond on.
BondsLoop(acc, h, o, btg, bonds, k) ==
    IF bonds = <<>> THEN acc
    ELSE BondsLoop(BondStep(acc, h, o, btg, Head(bonds), k), h, o, btg,
                   Tail(bonds), k + 1)

\* Line 339: n_nodes += mol.GetNumAtoms(), once per candidate molecule.
AddBonds(n_nodes, mol) == n_nodes + Len(mol.bonds)
AddNumAtoms(n_nodes, mol) == n_nodes + mol.natoms

RECURSIVE MolsLoop(_, _, _, _, _)
\* Lines 321-339: for mol in node['cand_mols'].
MolsLoop(acc, h, o, btg, mols) ==
    IF mols = <<>> THEN acc
    ELSE LET a == BondsLoop(acc, h, o, btg, Head(mols).bonds, 0)
         IN  MolsLoop([a EXCEPT !.n_nodes = AddNumAtoms(@, Head(mols)),
                                !.g = @ + 1],
                      h, o, btg, Tail(mols))

RECURSIVE NodesLoop(_, _, _, _, _)
\* Lines 317-341: for node_id, node in tree.nodes_dict.items().  Line 341
\* extends cand_batch_idx with i, the variable line 322 also assigns.
NodesLoop(acc, h, o, btg, nodes) ==
    IF nodes = <<>> THEN acc
    ELSE IF Skipped(Head(nodes))
    THEN NodesLoop(acc, h, o, btg, Tail(nodes))
    ELSE LET a == MolsLoop(acc, h, o, btg, Head(nodes).cand_mols)
         IN  NodesLoop([a EXCEPT !.cand_batch_idx =
                           @ \o [c \in 1..Len(Head(nodes).cands) |-> a.i]],
                       h, o, btg, Tail(nodes))

RECURSIVE TreesLoop(_, _, _, _, _)
\* Lines 316-341: for i, tree in enumerate(batch_trees), from position p on.
TreesLoop(acc, h, btg, ts, p) ==
    IF ts = <<>> THEN acc
    ELSE TreesLoop(NodesLoop([acc EXCEPT !.i = p, !.p = p], h, Head(ts), btg,
                             nodes_dict(h[Head(ts)].smiles)),
                   h, btg, Tail(ts), p + 1)

RECURSIVE Chain(_)
\* itertools.chain.from_iterable over lists.
Chain(lists) == IF lists = <<>> THEN <<>> ELSE Head(lists) \o Chain(Tail(lists))

\* cands.index(x): 0-based position of the first x.
Index(cands, x) == (CHOOSE k \in 1..Len(cands) :
                       cands[k] = x /\ \A j \in 1..(k - 1) : cands[j] # x) - 1

RECURSIVE StereoIdx(_, _, _)
\* Lines 360-369, from position p on; st = [h, idx, labels].
StereoIdx(st, ts, p) ==
    IF ts = <<>> THEN st
    ELSE LET o == Head(ts)
             s3D == StereoSmiles(MolTree(st.h[o].smiles).smiles3D)
             c0 == st.h[o].stereo_cands
             cands == IF s3D \notin Range(c0) THEN Append(c0, s3D) ELSE c0
         IN  IF Len(c0) = 1
             THEN StereoIdx(st, Tail(ts), p + 1)
             ELSE StereoIdx(
                    [h |-> [st.h EXCEPT ![o].stereo_cands = cands],
                     idx |-> st.idx \o [c \in 1..Len(cands) |-> p],
                     labels |-> Append(st.labels, <<Index(cands, s3D), Len(cands)>>)],
                    Tail(ts), p + 1)

\* Some node of the batch had an 'idx' from an earlier collation and got another.
Restamped(h, h1, ts) ==
    \E o \in Range(ts) : \E j \in 1..NumNodes(h, o) :
        h[o].idx[j] >= 0 /\ h1[o].idx[j] # h[o].idx[j]

\* torch tensors of lines 348-358 and 371-374, with their shapes.
Tensor2(rows) == [shape |-> <<Len(rows), 2>>, rows |-> rows]
Tensor1(list) == [shape |-> <<Len(list)>>, rows |-> list]

\* One JTVAECollator.__call__(data) on the datapoints collected in batch.
Collate ==
    /\ pc = "idle"
    /\ batch # <<>>
    /\ LET ts == TreesOf(batch)
           btg == BatchTreeGraphs(heap, ts, 0)
           bmg == [k \in 1..Len(batch) |-> batch[k].mol_graph]
           h1 == SetBatchNodeID(heap, ts, 0)
           acc == TreesLoop(NewAcc, h1, btg, ts, 0)
           base == [NoOut EXCEPT !.items = batch, !.batch_trees = ts,
                                 !.batch_tree_graphs = btg,
                                 !.batch_mol_graphs = bmg]
       IN  IF ~training
           THEN \* line 302
                /\ out' = [base EXCEPT !.kind = "returned", !.ncomp = 3]
                /\ heap' = heap
           ELSE IF \E k \in 1..Len(batch) :
                      ~batch[k].cand.set \/ ~batch[k].stereo.set
           THEN \* lines 343, 345: chain.from_iterable meets None
                /\ out' = [base EXCEPT !.kind = "raised",
                                       !.restamped = Restamped(heap, h1, ts)]
                /\ heap' = h1
           ELSE LET st == StereoIdx([h |-> h1, idx |-> <<>>, labels |-> <<>>], ts, 0)
                IN  /\ out' = [base EXCEPT
                          !.kind = "returned", !.ncomp = 10,
                          !.cand_batch_idx = Tensor1(acc.cand_batch_idx),
                          !.batch_cand_graphs =
                              Chain([k \in 1..Len(batch) |-> batch[k].cand.val]),
                          !.tree_mess_source_edges =
                              Tensor2(acc.tree_mess_source_edges),
                          !.tree_mess_target_edges =
                              Tensor2(acc.tree_mess_target_edges),
                          !.stereo_cand_batch_idx = Tensor1(st.idx),
                          !.stereo_cand_labels = st.labels,
                          !.batch_stereo_cand_graphs =
                              Chain([k \in 1..Len(batch) |-> batch[k].stereo.val]),
                          !.bonds = acc.bonds,
                          !.restamped = Restamped(heap, h1, ts)]
                    /\ heap' = st.h
    /\ batch' = <<>>
    /\ ret' = NoRet
    /\ UNCHANGED <<cache, training, data, trees, mol_graphs, cand_graphs,
                   stereo_cand_graphs, calls, pc, cur>>

Next ==
    \/ \E idx \in 1..NData : GetItem(idx)
    \/ StereoLoop
    \/ Collate

Spec == Init /\ [][Next]_vars

(***************************************************************************)
(* Properties                                                              *)
(***************************************************************************)

\* The last collation was a training collation that returned.
TrainingReturn == training /\ out.kind = "returned"
\* The last collation was a training collation (returned or raised).
TrainingCollation == training /\ out.kind # "none"

RECURSIVE Sum(_)
Sum(s) == IF s = <<>> THEN 0 ELSE Head(s) + Sum(Tail(s))

\* Node count of the trees before 0-based position p of the collated batch.
TreeOffset(p) == Sum([k \in 1..p |-> NumNodes(heap, out.batch_trees[k])])
\* Node count of the first g graphs of the batched candidate graph.
GraphOffset(g) == Sum(SubSeq(out.batch_cand_graphs, 1, g))

Distinct(s) == \A k, l \in 1..Len(s) : k # l => s[k] # s[l]

\* C1: in a training collation cand_batch_idx has one entry per candidate
\* graph, in order, and the entry of a candidate graph is the 0-based
\* position in the batch of the molecule it came from.
C1_CandBatchIdxIsMolecule ==
    TrainingReturn =>
        out.cand_batch_idx.rows =
            Chain([k \in 1..Len(out.items) |->
                      [c \in 1..Len(out.items[k].cand.val) |-> k - 1]])

\* C2: with cache=True a training-mode __getitem__ returns what the uncached
\* dataset returns: the candidate graphs and the stereo candidate graphs are
\* lists (never None), the candidate graphs those of the tree.
C2_CacheTransparent ==
    (cache /\ training /\ ret.kind = "returned") =>
        /\ ret.cand.set
        /\ ret.stereo.set
        /\ ret.cand.val = CandGraphs(nodes_dict(data[ret.idx]))

\* The bonds of the collated batch that qualify for a message edge: both
\* atoms mapped, to different nodes that a tree edge joins.
QualifyingBonds ==
    {q \in UNION {UNION {UNION {
            {<<p, n, m, b>> :
                b \in 1..Len(nodes_dict(heap[out.batch_trees[p]].smiles)[n].cand_mols[m].bonds)} :
            m \in 1..Len(nodes_dict(heap[out.batch_trees[p]].smiles)[n].cand_mols)} :
            n \in 1..Len(nodes_dict(heap[out.batch_trees[p]].smiles))} :
            p \in 1..Len(out.batch_trees)} :
        LET node == nodes_dict(heap[out.batch_trees[q[1]]].smiles)[q[2]]
            bond == node.cand_mols[q[3]].bonds[q[4]]
            off == TreeOffset(q[1] - 1)
            X == off + bond.mb - 1
            Y == off + bond.me - 1
        IN  /\ ~Skipped(node)
            /\ bond.mb > 0 /\ bond.me > 0 /\ bond.mb # bond.me
            /\ \/ <<X, Y>> \in out.batch_tree_graphs.edges
               \/ <<Y, X>> \in out.batch_tree_graphs.edges}

\* C3: every pair of tree_mess_source_edges is an edge (u, v), u # v, of the
\* batched tree graph between the batch nodes that the bond's two atom-map
\* numbers (minus 1) name; the pair at the same position of
\* tree_mess_target_edges is (begin, end) when the tree edge runs from the
\* begin atom's node to the end atom's node and (end, begin) when only the
\* reverse edge exists; unmapped and same-node bonds contribute nothing, and
\* every other bond whose nodes are joined contributes one pair.
C3_MessageEdges ==
    TrainingReturn =>
        LET src == out.tree_mess_source_edges.rows
            tgt == out.tree_mess_target_edges.rows
            E == out.batch_tree_graphs.edges
        IN  /\ Len(src) = Len(out.bonds)
            /\ Len(src) = Cardinality(QualifyingBonds)
            /\ \A k \in 1..Len(src) :
                 LET og == out.bonds[k]
                     off == TreeOffset(og.p)
                     X == off + og.bond.mb - 1
                     Y == off + og.bond.me - 1
                     G == GraphOffset(og.g)
                 IN  /\ og.bond.mb > 0 /\ og.bond.me > 0 /\ og.bond.mb # og.bond.me
                     /\ src[k] \in E
                     /\ src[k][1] # src[k][2]
                     /\ IF <<X, Y>> \in E
                        THEN /\ src[k] = <<X, Y>>
                             /\ tgt[k] = <<og.bond.b + G, og.bond.e + G>>
                        ELSE /\ src[k] = <<Y, X>>
                             /\ tgt[k] = <<og.bond.e + G, og.bond.b + G>>

\* C3 witness: a returned training collation whose second tree contributed a
\* pair for a forward tree edge and a pair for a reverse-only tree edge.
C3_Witness ==
    /\ TrainingReturn
    /\ \E k, l \in 1..Len(out.bonds) :
          /\ out.bonds[k].dir = "fwd" /\ out.bonds[k].p = 1
          /\ out.bonds[l].dir = "rev" /\ out.bonds[l].p = 1

\* C4: every atom index of tree_mess_target_edges is the atom's index in its
\* candidate molecule plus the node count of the candidate graphs before its
\* own in the batched candidate graph (the datapoints' candidate-graph lists
\* chained in batch order); so it lies inside its own graph's node range and
\* in [0, number of nodes of the batched candidate graph).
C4_TargetOffsets ==
    TrainingReturn =>
        LET tgt == out.tree_mess_target_edges.rows
            total == Sum(out.batch_cand_graphs)
        IN  \A k \in 1..Len(tgt) :
              LET og == out.bonds[k]
                  G == GraphOffset(og.g)
              IN  /\ og.g + 1 <= Len(out.batch_cand_graphs)
                  /\ {tgt[k][1], tgt[k][2]} = {og.bond.b + G, og.bond.e + G}
                  /\ \A a \in {tgt[k][1], tgt[k][2]} :
                        /\ G <= a /\ a < G + out.batch_cand_graphs[og.g + 1]
                        /\ 0 <= a /\ a < total

\* C4 witness: a target pair inside a candidate graph of the second molecule
\* that is preceded by at least three candidate graphs.
C4_Witness ==
    /\ TrainingReturn
    /\ \E k \in 1..Len(out.bonds) :
          /\ out.bonds[k].p = 1 /\ out.bonds[k].g >= 3
          /\ out.tree_mess_target_edges.rows[k][1] >= GraphOffset(3)

\* Number of entries lines 362-369 add to stereo_cand_batch_idx for tree o.
StereoEntries(o) ==
    Len(StereoIdx([h |-> heap, idx |-> <<>>, labels |-> <<>>], <<o>>, 0).idx)

\* C5: the number of stereo candidate graphs a training-mode __getitem__
\* returns for a molecule is the number of entries the collator adds to
\* stereo_cand_batch_idx for it (None counted as no graph).
C5_StereoCountsAgree ==
    (training /\ ret.kind = "returned") =>
        Len(ret.stereo.val) = StereoEntries(ret.tree)

\* C6: every training collation returns its 10 components; the two message
\* edge tensors have the same number of rows and two columns (shape (0, 2)
\* when empty), cand_batch_idx and stereo_cand_batch_idx have length 0 when
\* there is no candidate / no tree with a stereo count other than 1.
C6_AlwaysFullResult ==
    TrainingCollation =>
        /\ out.kind = "returned"
        /\ out.ncomp = 10
        /\ out.tree_mess_source_edges.shape = out.tree_mess_target_edges.shape
        /\ out.tree_mess_source_edges.shape[2] = 2
        /\ (out.batch_cand_graphs = <<>>) => out.cand_batch_idx.shape = <<0>>
        /\ (\A k \in 1..Len(out.batch_trees) :
               Len(MolTree(heap[out.batch_trees[k]].smiles).stereo_cands) = 1)
             => /\ out.stereo_cand_batch_idx.shape = <<0>>
                /\ out.stereo_cand_labels = <<>>

\* C7 (state part): with cache=True the trees constructed are exactly the
\* filled slots (none after __init__), tree and molecule graph slots are
\* filled together, and a returning access returns the stored objects.
C7_Inv ==
    /\ cache => Len(heap) = Cardinality({k \in 1..NData : trees[k] # 0})
    /\ \A k \in 1..NData : (trees[k] = 0) <=> (mol_graphs[k] = 0)
    /\ ~cache => \A k \in 1..NData : trees[k] = 0
    /\ (cache /\ ret.kind = "returned") =>
          /\ ret.tree # 0
          /\ ret.tree = trees[ret.idx]
          /\ ret.mol_graph = mol_graphs[ret.idx]

\* A __getitem__ call that got past construction happens in this step.
AccessStep == pc = "idle" /\ (Len(batch') = Len(batch) + 1 \/ pc' = "stereo_loop")

\* The index that call accesses.
AccessIdx == IF pc' = "stereo_loop" THEN cur'.idx ELSE ret'.idx

\* C7 (step part): a filled slot is never reset or replaced; with cache=True
\* an access constructs a tree exactly when the slot of its index is empty;
\* with cache=False every access constructs a new tree.
C7_Step ==
    /\ \A k \in 1..NData :
          trees[k] # 0 => (trees'[k] = trees[k] /\ mol_graphs'[k] = mol_graphs[k])
    /\ (cache /\ AccessStep) =>
          /\ (Len(heap') = Len(heap) + 1) <=> (trees[AccessIdx] = 0)
          /\ Len(heap') \in {Len(heap), Len(heap) + 1}
    /\ (~cache /\ AccessStep) =>
          /\ Len(heap') = Len(heap) + 1
          /\ pc' = "idle" => ret'.tree = Len(heap')

\* C7: trees are built lazily, and at most once per index when cached.
C7_LazyBuiltOnce == []C7_Inv /\ [][C7_Step]_vars

\* C7 witness: a cached access that returned the stored tree without building.
C7_Witness == cache /\ ret.kind = "returned" /\ ~ret.built /\ Len(heap) = NData

\* C8: a __getitem__ whose tree construction or parsing raises leaves all
\* four cache lists as they were, the four slots of its index unset.
C8_Step ==
    (ret'.kind = "raised" /\ ret'.why = "parse") =>
        /\ UNCHANGED <<trees, mol_graphs, cand_graphs, stereo_cand_graphs>>
        /\ trees'[ret'.idx] = 0
        /\ mol_graphs'[ret'.idx] = 0
        /\ ~cand_graphs'[ret'.idx].set
        /\ ~stereo_cand_graphs'[ret'.idx].set
C8_FailureLeavesCache == [][C8_Step]_vars

\* C8 witness: with cache=True, an access raised on a malformed SMILES while
\* the slot of another index was filled.
C8_Witness ==
    /\ cache /\ ret.kind = "raised" /\ ret.why = "parse"
    /\ \E k \in 1..NData : k # ret.idx /\ trees[k] # 0

\* C9: the loop over the stereo candidates ends after one iteration per
\* candidate and leaves stereo_cands holding only the original candidates
\* plus at most one added smiles3D.
C9_StereoLoopEnds ==
    \A o \in 1..Len(heap) :
        LET mt == MolTree(heap[o].smiles)
            sc == heap[o].stereo_cands
        IN  /\ Len(sc) <= Len(mt.stereo_cands) + 1
            /\ \A k \in 1..Len(sc) :
                  /\ sc[k].kind = "smiles"
                  /\ sc[k].id \in Range(mt.stereo_cands) \cup {mt.smiles3D}
            /\ (pc = "stereo_loop" /\ cur.tree = o) => cur.pos <= Len(mt.stereo_cands) + 1

\* C10: after a training collation of pairwise distinct trees, the j-th node
\* of the tree at position p has idx = (node count of the trees before p) + j
\* (0-based), a bijection onto 0..N-1, whatever idx the trees had before; the
\* node IDs in tree_mess_source_edges are among them.
C10_BatchNodeIDs ==
    (TrainingCollation /\ Distinct(out.batch_trees)) =>
        /\ \A p \in 1..Len(out.batch_trees) :
              \A j \in 1..NumNodes(heap, out.batch_trees[p]) :
                  heap[out.batch_trees[p]].idx[j] = TreeOffset(p - 1) + (j - 1)
        /\ \A k \in 1..Len(out.tree_mess_source_edges.rows) :
              \A u \in {out.tree_mess_source_edges.rows[k][1],
                        out.tree_mess_source_edges.rows[k][2]} :
                  0 <= u /\ u < TreeOffset(Len(out.batch_trees))

\* C10 witness: a training collation of two distinct trees in which a tree
\* numbered by an earlier collation got other numbers.
C10_Witness ==
    /\ TrainingCollation /\ Distinct(out.batch_trees)
    /\ Len(out.batch_trees) = 2
    /\ out.restamped

====
